---- MODULE Spec2Model ----
(***************************************************************************)
(* Model of src/model.py: the FER2013 mini-Xception training script.       *)
(*                                                                         *)
(* The script is one sequential control flow.  It is modelled as three     *)
(* stages, each with its own specification, because the stages only hand   *)
(* over finished values (the arrays, the built graph):                     *)
(*   SpecData  lines 37-64    cache load / regenerate                      *)
(*   SpecArch  lines 75-157   layer-by-layer construction of the graph     *)
(*   Spec      lines 159-196  freeze, load weights, compile, callbacks,    *)
(*                            the epoch loop, and the script being rerun   *)
(*                                                                         *)
(* Validation losses are integers in units of 1e-4 (the default min_delta  *)
(* of ReduceLROnPlateau), learning rates are decimal exponents             *)
(* (lr = 10^lr, so multiplying by factor = 0.1 adds -1).                   *)
(***************************************************************************)
EXTENDS Integers, Sequences, FiniteSets, TLC

VARIABLES
    \* ---- training stage (Spec) ----
    pc,              \* position in lines 159-196
    epoch,           \* completed epochs of the current fit_generator call
    model,           \* [weights, lr, stop_training, trainable]
    file,            \* models/model.best.hdf5: [state, weights, val_loss]
    checkpoint,      \* ModelCheckpoint: [best]
    csv_logger,      \* CSVLogger: [rows, has_lr]
    early_stopping,  \* EarlyStopping: [patience, wait, best, stopped_epoch]
    reduce_lr,       \* ReduceLROnPlateau: [patience, wait, best, cooldown_counter]
    fired,           \* observer: callbacks run at the last epoch end, in order
    hist_min,        \* observer: lowest validation loss of the run so far
    hist_streak,     \* observer: consecutive epochs not below hist_min
    \* ---- data stage (SpecData) ----
    dpc,             \* position in lines 38-64
    cache,           \* the six .npy files: name -> [state, data]
    cache0,          \* the cache as the script found it
    arrays,          \* X_train .. Y_test: name -> value bound ("unset" before)
    parsed,          \* splits parsed from the CSV by utils.load_data
    \* ---- architecture stage (SpecArch) ----
    apc,             \* index of the next layer call of lines 77-155
    input_shape,     \* line 76
    x,               \* shape of tensor x
    residual,        \* shape of tensor residual
    sums             \* the operand shapes of each layers.add so far

trainVars == <<pc, epoch, model, file, checkpoint, csv_logger, early_stopping,
               reduce_lr, fired, hist_min, hist_streak>>
dataVars == <<dpc, cache, cache0, arrays, parsed>>
archVars == <<apc, input_shape, x, residual, sums>>
vars == <<trainVars, dataVars, archVars>>

(***************************************************************************)
(* Bounds of the model.                                                    *)
(***************************************************************************)
\* validation losses range over 0..MaxLoss (units of 1e-4); five values let
\* a run improve often enough to outlast early stopping until num_epochs
MaxLoss == 4

(***************************************************************************)
(* Script parameters, lines 25-35, and framework defaults in force.        *)
(***************************************************************************)
num_epochs == 250
num_classes == 7
wait_time == 50
fine_tune == TRUE
\* ReduceLROnPlateau(patience=10) default, in force at line 178
DefaultPatience == 10
\* ReduceLROnPlateau(min_delta=1e-4) default, one loss unit
MinDelta == 1
\* factor=0.1 as a decimal exponent
FactorExp == -1
\* optimizer='adam': lr = 0.001 as a decimal exponent
AdamLrExp == -3
\* model.layers[:10]
FrozenPrefix == 10
Losses == 0..MaxLoss
\* np.Inf: above every loss, also after min_delta is subtracted
Inf == MaxLoss + MinDelta + 1

(***************************************************************************)
(* Lines 77-155 as data: the layer calls in script order.                  *)
(***************************************************************************)

\* Keras conv_output_length for one spatial dimension
OutLen(n, k, stride, padding) ==
    IF padding = "same" THEN (n + stride - 1) \div stride
    ELSE (n - k + stride) \div stride

\* one layer call: op, the variable it reads (src) and assigns (dst)
Call(op, src, dst, filters, k, stride, padding) ==
    [op |-> op, src |-> src, dst |-> dst, filters |-> filters, k |-> k,
     stride |-> stride, padding |-> padding]

BatchNorm(v) == Call("BatchNormalization", v, v, 0, 1, 1, "same")
Relu == Call("Activation", "x", "x", 0, 1, 1, "same")

\* lines 78-87
Stem ==
    << Call("Conv2D", "x", "x", 8, 3, 1, "valid"), BatchNorm("x"), Relu,
       Call("Conv2D", "x", "x", 8, 3, 1, "valid"), BatchNorm("x"), Relu >>

\* Module with the pooling left at its default padding ('valid')
Module_ValidPool(filters) ==
    << Call("Conv2D", "x", "residual", filters, 1, 2, "same"),
       BatchNorm("residual"),
       Call("SeparableConv2D", "x", "x", filters, 3, 1, "same"),
       BatchNorm("x"), Relu,
       Call("SeparableConv2D", "x", "x", filters, 3, 1, "same"),
       BatchNorm("x"),
       Call("MaxPooling2D", "x", "x", 0, 3, 2, "valid"),
       Call("add", "x", "x", 0, 1, 1, "same") >>

\* lines 89-103 (105-119, 121-135, 137-151 with 32, 64, 128 filters)
Module(filters) ==
    << Call("Conv2D", "x", "residual", filters, 1, 2, "same"),
       BatchNorm("residual"),
       Call("SeparableConv2D", "x", "x", filters, 3, 1, "same"),
       BatchNorm("x"), Relu,
       Call("SeparableConv2D", "x", "x", filters, 3, 1, "same"),
       BatchNorm("x"),
       Call("MaxPooling2D", "x", "x", 0, 3, 2, "same"),
       Call("add", "x", "x", 0, 1, 1, "same") >>

\* lines 153-155
HeadLayers ==
    << Call("Conv2D", "x", "x", num_classes, 3, 1, "same"),
       Call("GlobalAveragePooling2D", "x", "x", 0, 1, 1, "same"),
       Call("Activation", "x", "x", 0, 1, 1, "same") >>

\* lines 78-155
Program ==
    Stem \o Module(16) \o Module(32) \o Module(64) \o Module(128) \o HeadLayers

\* line 157: the layers of Model(img_input, output): the Input layer and
\* one layer per call
NumLayers == Len(Program) + 1
Layers == 1..NumLayers
\* a weight vector is named by where it comes from: the initialisers, the
\* snapshot file as found, or the end of training epoch n of the current run
FreshWeights == [tag |-> "init"]
SnapshotWeights == [tag |-> "snapshot"]
TrainedWeights(n) == [tag |-> "trained", epochs |-> n]

(***************************************************************************)
(* Lines 176-186: the callbacks.  Each on_epoch_end maps the record        *)
(*   s = [model, file, checkpoint, csv_logger, early_stopping, reduce_lr,  *)
(*        logs, fired]                                                     *)
(* to the record after the call; logs = [val_loss, has_lr].                *)
(***************************************************************************)

\* ReduceLROnPlateau.__init__(monitor, factor, patience=10, ..., **kwargs):
\* a keyword it does not know is swallowed by **kwargs and never read.
ReduceLROnPlateau(kwargs) ==
    [patience |-> IF "patience" \in DOMAIN kwargs THEN kwargs.patience
                  ELSE DefaultPatience,
     wait |-> 0, best |-> Inf, cooldown_counter |-> 0]

\* line 178-179: ReduceLROnPlateau('val_loss', factor=0.1,
\*                                 wait_time=int(wait_time/4), verbose=1)
reduce_lr_new == ReduceLROnPlateau([wait_time |-> wait_time \div 4])

\* line 182: ModelCheckpoint(model_path, 'val_loss', save_best_only=True);
\* best is set in the constructor (mode auto, monitor val_loss: np.less, Inf)
checkpoint_new == [best |-> Inf]

\* line 185: EarlyStopping('val_loss', patience=wait_time)
early_stopping_new ==
    [patience |-> wait_time, wait |-> 0, best |-> Inf, stopped_epoch |-> 0]

\* line 184: CSVLogger(log_path, append=False)
csv_logger_new == [rows |-> 0, has_lr |-> FALSE]

\* ModelCheckpoint.on_epoch_end comparing with np.less_equal
ModelCheckpoint_on_epoch_end_LessEqual(s) ==
    IF s.logs.val_loss <= s.checkpoint.best
    THEN [s EXCEPT !.checkpoint.best = s.logs.val_loss,
                   !.file = [state |-> "ok", weights |-> s.model.weights,
                             val_loss |-> s.logs.val_loss]]
    ELSE s

\* ModelCheckpoint.on_epoch_end with save_best_only: save iff
\* np.less(current, best)
ModelCheckpoint_on_epoch_end(s) ==
    IF s.logs.val_loss < s.checkpoint.best
    THEN [s EXCEPT !.checkpoint.best = s.logs.val_loss,
                   !.file = [state |-> "ok", weights |-> s.model.weights,
                             val_loss |-> s.logs.val_loss]]
    ELSE s

\* CSVLogger.on_epoch_end: the columns are the keys of logs at the first row
CSVLogger_on_epoch_end(s) ==
    [s EXCEPT !.csv_logger.rows = @ + 1,
              !.csv_logger.has_lr =
                  IF s.csv_logger.rows = 0 THEN s.logs.has_lr ELSE @]

\* EarlyStopping.on_epoch_end testing the counter before incrementing it
EarlyStopping_on_epoch_end_LateIncrement(s) ==
    IF s.logs.val_loss < s.early_stopping.best
    THEN [s EXCEPT !.early_stopping.best = s.logs.val_loss,
                   !.early_stopping.wait = 0]
    ELSE IF s.early_stopping.wait >= s.early_stopping.patience
         THEN [s EXCEPT !.early_stopping.wait = @ + 1,
                        !.early_stopping.stopped_epoch = s.epoch,
                        !.model.stop_training = TRUE]
         ELSE [s EXCEPT !.early_stopping.wait = @ + 1]

\* EarlyStopping.on_epoch_end, min_delta = 0
EarlyStopping_on_epoch_end(s) ==
    IF s.logs.val_loss < s.early_stopping.best
    THEN [s EXCEPT !.early_stopping.best = s.logs.val_loss,
                   !.early_stopping.wait = 0]
    ELSE LET w == s.early_stopping.wait + 1 IN
         IF w >= s.early_stopping.patience
         THEN [s EXCEPT !.early_stopping.wait = w,
                        !.early_stopping.stopped_epoch = s.epoch,
                        !.model.stop_training = TRUE]
         ELSE [s EXCEPT !.early_stopping.wait = w]

\* ReduceLROnPlateau.on_epoch_end, cooldown = 0, min_lr = 0 (lr > 0 always)
ReduceLROnPlateau_on_epoch_end(s) ==
    LET s1 == [s EXCEPT !.logs.has_lr = TRUE]
        cool == s1.reduce_lr.cooldown_counter > 0
        s2 == IF cool
              THEN [s1 EXCEPT !.reduce_lr.cooldown_counter = @ - 1,
                              !.reduce_lr.wait = 0]
              ELSE s1
    IN  IF s2.logs.val_loss < s2.reduce_lr.best - MinDelta
        THEN [s2 EXCEPT !.reduce_lr.best = s2.logs.val_loss,
                        !.reduce_lr.wait = 0]
        ELSE IF s2.reduce_lr.cooldown_counter > 0
        THEN s2
        ELSE LET w == s2.reduce_lr.wait + 1 IN
             IF w >= s2.reduce_lr.patience
             THEN [s2 EXCEPT !.model.lr = @ + FactorExp,
                             !.reduce_lr.cooldown_counter = 0,
                             !.reduce_lr.wait = 0]
             ELSE [s2 EXCEPT !.reduce_lr.wait = w]

\* the list with early stopping ahead of the checkpoint
callback_list_Reordered ==
    <<"early_stopping", "checkpoint", "csv_logger", "reduce_lr">>

\* lines 183-186
callback_list == <<"checkpoint", "csv_logger", "early_stopping", "reduce_lr">>

on_epoch_end(name, s) ==
    LET t == CASE name = "checkpoint" -> ModelCheckpoint_on_epoch_end(s)
               [] name = "csv_logger" -> CSVLogger_on_epoch_end(s)
               [] name = "early_stopping" -> EarlyStopping_on_epoch_end(s)
               [] name = "reduce_lr" -> ReduceLROnPlateau_on_epoch_end(s)
    IN  [t EXCEPT !.fired = Append(@, name)]

\* CallbackList.on_epoch_end: every callback, in list order
RECURSIVE RunCallbacks(_, _)
RunCallbacks(list, s) ==
    IF list = <<>> THEN s
    ELSE RunCallbacks(Tail(list), on_epoch_end(Head(list), s))

(***************************************************************************)
(* Lines 159-196 as steps of the script.                                   *)
(***************************************************************************)

\* lines 157, 176-186 start state of a run: Model(img_input, output) with
\* freshly initialised, all-trainable layers; no optimizer, no callbacks yet
NewModel ==
    [weights |-> FreshWeights, lr |-> 0, stop_training |-> FALSE,
     trainable |-> Layers]

\* lines 160-162
FineTuneFreeze ==
    /\ pc = "freeze"
    /\ model' = IF fine_tune
                THEN [model EXCEPT !.trainable = @ \ (1..FrozenPrefix)]
                ELSE model
    /\ pc' = "load_weights"
    /\ UNCHANGED <<epoch, file, checkpoint, csv_logger, early_stopping,
                   reduce_lr, fired, hist_min, hist_streak>>
    /\ UNCHANGED <<dataVars, archVars>>

\* load_weights leaving the layers it had already assigned when it raised
LoadWeights_Partial ==
    /\ pc = "load_weights"
    /\ model' = IF file.state = "ok"
                THEN [model EXCEPT !.weights = SnapshotWeights]
                ELSE IF file.state = "corrupt"
                THEN [model EXCEPT !.weights = [tag |-> "partial"]]
                ELSE model
    /\ pc' = "compile"
    /\ UNCHANGED <<epoch, file, checkpoint, csv_logger, early_stopping,
                   reduce_lr, fired, hist_min, hist_streak>>
    /\ UNCHANGED <<dataVars, archVars>>

\* lines 165-169: try load_weights / bare except
LoadWeights ==
    /\ pc = "load_weights"
    /\ model' = IF file.state = "ok"
                THEN [model EXCEPT !.weights = SnapshotWeights]
                ELSE model
    /\ pc' = "compile"
    /\ UNCHANGED <<epoch, file, checkpoint, csv_logger, early_stopping,
                   reduce_lr, fired, hist_min, hist_streak>>
    /\ UNCHANGED <<dataVars, archVars>>

\* lines 172-174
Compile ==
    /\ pc = "compile"
    /\ model' = [model EXCEPT !.lr = AdamLrExp]
    /\ pc' = "callbacks"
    /\ UNCHANGED <<epoch, file, checkpoint, csv_logger, early_stopping,
                   reduce_lr, fired, hist_min, hist_streak>>
    /\ UNCHANGED <<dataVars, archVars>>

\* lines 177-186
MakeCallbacks ==
    /\ pc = "callbacks"
    /\ reduce_lr' = reduce_lr_new
    /\ checkpoint' = checkpoint_new
    /\ early_stopping' = early_stopping_new
    /\ csv_logger' = csv_logger_new
    /\ pc' = "fit"
    /\ UNCHANGED <<epoch, model, file, fired, hist_min, hist_streak>>
    /\ UNCHANGED <<dataVars, archVars>>

\* line 190, fit_generator up to the first epoch: stop_training = False and
\* every callback's on_train_begin (EarlyStopping and ReduceLROnPlateau
\* reset wait and best; CSVLogger truncates the log)
FitBegin ==
    /\ pc = "fit"
    /\ epoch' = 0
    /\ model' = [model EXCEPT !.stop_training = FALSE]
    /\ early_stopping' = [early_stopping EXCEPT !.wait = 0, !.best = Inf,
                                                !.stopped_epoch = 0]
    /\ reduce_lr' = [reduce_lr EXCEPT !.wait = 0, !.best = Inf,
                                      !.cooldown_counter = 0]
    /\ csv_logger' = csv_logger_new
    /\ pc' = "epoch"
    /\ UNCHANGED <<file, checkpoint, fired, hist_min, hist_streak>>
    /\ UNCHANGED <<dataVars, archVars>>

\* lines 190-196, one pass of `while epoch < epochs`: the training steps,
\* the validation pass (val_loss), callbacks.on_epoch_end, epoch += 1
Epoch ==
    /\ pc = "epoch"
    /\ epoch < num_epochs
    /\ ~model.stop_training
    /\ \E val_loss \in Losses :
          LET s0 == [epoch |-> epoch,
                     model |-> [model EXCEPT !.weights = TrainedWeights(epoch + 1)],
                     file |-> file,
                     checkpoint |-> checkpoint,
                     csv_logger |-> csv_logger,
                     early_stopping |-> early_stopping,
                     reduce_lr |-> reduce_lr,
                     logs |-> [val_loss |-> val_loss, has_lr |-> FALSE],
                     fired |-> <<>>]
          IN  \E s \in {RunCallbacks(callback_list, s0)} :
              /\ model' = s.model
              /\ file' = s.file
              /\ checkpoint' = s.checkpoint
              /\ csv_logger' = s.csv_logger
              /\ early_stopping' = s.early_stopping
              /\ reduce_lr' = s.reduce_lr
              /\ fired' = s.fired
              /\ hist_min' = IF val_loss < hist_min THEN val_loss ELSE hist_min
              /\ hist_streak' = IF val_loss < hist_min THEN 0
                                ELSE hist_streak + 1
    /\ epoch' = epoch + 1
    /\ pc' = "epoch"
    /\ UNCHANGED <<dataVars, archVars>>

\* fit_generator returns: `epoch < epochs` is false, or stop_training broke
\* the loop; the script ends
FitEnd ==
    /\ pc = "epoch"
    /\ (epoch >= num_epochs \/ model.stop_training)
    /\ pc' = "done"
    /\ UNCHANGED <<epoch, model, file, checkpoint, csv_logger, early_stopping,
                   reduce_lr, fired, hist_min, hist_streak>>
    /\ UNCHANGED <<dataVars, archVars>>

\* the script is run again: everything in memory is rebuilt (lines 75-157),
\* models/model.best.hdf5 is what the last run left
Rerun ==
    /\ pc = "done"
    /\ pc' = "freeze"
    /\ epoch' = 0
    /\ model' = NewModel
    /\ checkpoint' = [best |-> Inf]
    /\ csv_logger' = csv_logger_new
    /\ early_stopping' = early_stopping_new
    /\ reduce_lr' = [patience |-> 0, wait |-> 0, best |-> Inf,
                     cooldown_counter |-> 0]
    /\ fired' = <<>>
    /\ hist_min' = Inf
    /\ hist_streak' = 0
    /\ UNCHANGED file
    /\ UNCHANGED <<dataVars, archVars>>

\* a snapshot file that cannot be loaded
NoSnapshot(st) == [state |-> st, weights |-> FreshWeights, val_loss |-> Inf]

\* in memory before line 159 has run
InitMemory ==
    /\ epoch = 0
    /\ model = NewModel
    /\ checkpoint = [best |-> Inf]
    /\ csv_logger = csv_logger_new
    /\ early_stopping = early_stopping_new
    /\ reduce_lr = [patience |-> 0, wait |-> 0, best |-> Inf,
                    cooldown_counter |-> 0]
    /\ fired = <<>>
    /\ hist_min = Inf
    /\ hist_streak = 0

\* the first run finds no snapshot, or one it cannot read
InitTrain ==
    /\ pc = "freeze"
    /\ file \in {NoSnapshot(st) : st \in {"missing", "corrupt"}}
    /\ InitMemory

InitTrainIdle ==
    /\ pc = "idle"
    /\ file = NoSnapshot("missing")
    /\ InitMemory

InitDataIdle ==
    /\ dpc = "idle" /\ cache = <<>> /\ cache0 = <<>> /\ arrays = <<>>
    /\ parsed = {}

InitArchIdle ==
    /\ apc = 0 /\ input_shape = <<>> /\ x = <<>> /\ residual = <<>>
    /\ sums = <<>>

Init == InitTrain /\ InitDataIdle /\ InitArchIdle

Next ==
    \/ FineTuneFreeze
    \/ LoadWeights
    \/ Compile
    \/ MakeCallbacks
    \/ FitBegin
    \/ Epoch
    \/ FitEnd
    \/ Rerun

Spec == Init /\ [][Next]_vars

(***************************************************************************)
(* Lines 37-64: the cached arrays.                                         *)
(***************************************************************************)

\* lines 39-44, in order
LoadOrder == <<"X_train", "Y_train", "X_val", "Y_val", "X_test", "Y_test">>
ArrayNames == {LoadOrder[i] : i \in DOMAIN LoadOrder}
Usages == {"Training", "PublicTest", "PrivateTest"}

\* lines 51-63: which usage fills which pair, and the tag it is saved under
UsageOf(name) ==
    CASE name \in {"X_train", "Y_train"} -> "Training"
      [] name \in {"X_val", "Y_val"} -> "PublicTest"
      [] name \in {"X_test", "Y_test"} -> "PrivateTest"

PairOf(usage) == {n \in ArrayNames : UsageOf(n) = usage}

\* the content of a readable .npy file found on disk
Cached(name) == [src |-> "npy", name |-> name]

\* utils.load_data(emotions, data_folder, usage): the image and label
\* arrays of the CSV rows with that usage tag
load_data(usage) ==
    [n \in PairOf(usage) |-> [src |-> "csv", usage |-> usage, name |-> n]]

\* utils.save_data(X, Y, tag): writes the pair to data/X_<tag>.npy and
\* data/Y_<tag>.npy
save_data(files, pair) ==
    [n \in ArrayNames |->
        IF n \in DOMAIN pair THEN [state |-> "ok", data |-> pair[n]]
        ELSE files[n]]

\* number of arrays bound so far: the try block is at load number NLoaded + 1
NLoaded == Cardinality({n \in ArrayNames : arrays[n] # [src |-> "unset"]})

\* np.load given a path that never resolves: every load raises
NpLoad_AlwaysFails ==
    /\ dpc = "try"
    /\ arrays' = arrays
    /\ dpc' = "except"
    /\ UNCHANGED <<cache, cache0, parsed>>
    /\ UNCHANGED <<trainVars, archVars>>

\* lines 39-45: one np.load of the try block; any failure raises into the
\* bare except
NpLoad ==
    /\ dpc = "try"
    /\ LET n == LoadOrder[NLoaded + 1] IN
       IF cache[n].state = "ok"
       THEN /\ arrays' = [arrays EXCEPT ![n] = cache[n].data]
            /\ dpc' = IF NLoaded + 1 = Len(LoadOrder) THEN "ready" ELSE "try"
       ELSE /\ arrays' = arrays
            /\ dpc' = "except"
    /\ UNCHANGED <<cache, cache0, parsed>>
    /\ UNCHANGED <<trainVars, archVars>>

\* an except block that regenerates only the split whose load raised
Regenerate_FailedOnly ==
    /\ dpc = "except"
    /\ LET usage == UsageOf(LoadOrder[NLoaded + 1])
           pair == load_data(usage)
       IN  /\ arrays' = [n \in ArrayNames |->
                            IF n \in DOMAIN pair THEN pair[n]
                            ELSE IF cache[n].state = "ok" THEN cache[n].data
                            ELSE arrays[n]]
           /\ cache' = save_data(cache, pair)
           /\ parsed' = parsed \cup {usage}
    /\ dpc' = "ready"
    /\ UNCHANGED cache0
    /\ UNCHANGED <<trainVars, archVars>>

\* lines 46-64: the except block
Regenerate ==
    /\ dpc = "except"
    /\ LET train == load_data("Training")
           val == load_data("PublicTest")
           test == load_data("PrivateTest")
       IN  /\ arrays' = [n \in ArrayNames |->
                            CASE n \in DOMAIN train -> train[n]
                              [] n \in DOMAIN val -> val[n]
                              [] n \in DOMAIN test -> test[n]]
           /\ cache' = save_data(save_data(save_data(cache, train), val), test)
    /\ parsed' = parsed \cup {"Training", "PublicTest", "PrivateTest"}
    /\ dpc' = "ready"
    /\ UNCHANGED cache0
    /\ UNCHANGED <<trainVars, archVars>>

\* a cache file as found: readable with its stored array, or not readable
FoundFile(name, st) ==
    [state |-> st,
     data |-> IF st = "ok" THEN Cached(name) ELSE [src |-> "none"]]

\* the six files as the script finds them: each readable, absent or corrupt
InitData ==
    /\ dpc = "try"
    /\ cache \in {[n \in ArrayNames |-> FoundFile(n, st[n])] :
                     st \in [ArrayNames -> {"ok", "missing", "corrupt"}]}
    /\ cache0 = cache
    /\ arrays = [n \in ArrayNames |-> [src |-> "unset"]]
    /\ parsed = {}

NextData ==
    \/ NpLoad
    \/ Regenerate

DataInit == InitData /\ InitTrainIdle /\ InitArchIdle

SpecData == DataInit /\ [][NextData]_vars

(***************************************************************************)
(* Lines 75-157: the graph, one layer call at a time.  A tensor is its     *)
(* shape <<height, width, channels>> (<<channels>> after global pooling).  *)
(***************************************************************************)

\* input sizes range over 48..48+SizeSlack in each dimension; the script's
\* own input is 48 x 48 x 1 (lines 30, 76)
SizeSlack == 2
InputSide == 48
InputChannels == 1

\* the shape a layer call returns for input shape `in`
OutShape(c, in) ==
    CASE c.op \in {"Conv2D", "SeparableConv2D"} ->
            << OutLen(in[1], c.k, c.stride, c.padding),
               OutLen(in[2], c.k, c.stride, c.padding), c.filters >>
      [] c.op = "MaxPooling2D" ->
            << OutLen(in[1], c.k, c.stride, c.padding),
               OutLen(in[2], c.k, c.stride, c.padding), in[3] >>
      [] c.op = "GlobalAveragePooling2D" -> << in[3] >>
      [] OTHER -> in

\* layers.add: operand dimensions must be equal, or one of them 1
Addable(a, b) ==
    /\ Len(a) = Len(b)
    /\ \A i \in DOMAIN a : a[i] = b[i] \/ a[i] = 1 \/ b[i] = 1

AddShape(a, b) == [i \in DOMAIN a |-> IF a[i] = 1 THEN b[i] ELSE a[i]]

\* lines 78-155, the call at position apc; an add of operands that cannot
\* be summed raises and the script ends there (x = <<>>)
ApplyLayer ==
    /\ apc \in DOMAIN Program
    /\ x # <<>>
    /\ LET c == Program[apc]
           in == IF c.src = "x" THEN x ELSE residual
       IN  IF c.op = "add"
           THEN /\ sums' = Append(sums, [x |-> x, residual |-> residual])
                /\ x' = IF Addable(x, residual) THEN AddShape(x, residual)
                        ELSE <<>>
                /\ residual' = residual
           ELSE /\ sums' = sums
                /\ x' = IF c.dst = "x" THEN OutShape(c, in) ELSE x
                /\ residual' = IF c.dst = "residual" THEN OutShape(c, in)
                               ELSE residual
    /\ apc' = apc + 1
    /\ UNCHANGED input_shape
    /\ UNCHANGED <<trainVars, dataVars>>

\* line 77: img_input = Input(input_shape)
InitArch ==
    /\ apc = 1
    /\ input_shape \in {<<h, w, InputChannels>> :
                           h, w \in InputSide..(InputSide + SizeSlack)}
    /\ x = input_shape
    /\ residual = <<>>
    /\ sums = <<>>

ArchInit == InitArch /\ InitTrainIdle /\ InitDataIdle

NextArch == ApplyLayer

SpecArch == ArchInit /\ [][NextArch]_vars

(***************************************************************************)
(* Properties.  hist_min and hist_streak are computed from the validation  *)
(* losses alone: the lowest loss of the run so far, and the number of      *)
(* consecutive epochs that did not go below it.                            *)
(***************************************************************************)

\* a step that completes one epoch of the training loop
EpochStep == pc = "epoch" /\ epoch' = epoch + 1

\* the snapshot holds the weights of the first epoch that reached the
\* lowest validation loss of the run
SnapshotIsBest ==
    /\ file.state = "ok"
    /\ file.val_loss = hist_min
    /\ file.weights = TrainedWeights(epoch - hist_streak)

\* C4: within one run the snapshot file is written at the end of an epoch
\* if and only if that epoch's validation loss is strictly below the lowest
\* loss of all earlier epochs (always at the first epoch), so after every
\* epoch the snapshot holds the weights of the minimum-loss epoch so far.
C4_CheckpointOnImprovement ==
    [][EpochStep =>
         /\ (hist_streak' = 0) <=>
                file' = [state |-> "ok", weights |-> TrainedWeights(epoch'),
                         val_loss |-> hist_min']
         /\ (hist_streak' # 0) => file' = file
         /\ (epoch = 0) => hist_streak' = 0
         /\ SnapshotIsBest']_vars

\* a run in which a later epoch replaced the first snapshot and the epochs
\* after it did not
C4_Witness ==
    /\ pc = "epoch"
    /\ hist_streak >= 2
    /\ epoch - hist_streak >= 3
    /\ SnapshotIsBest

\* C5: training halts at the end of the first epoch at which wait_time
\* consecutive epochs have not gone below the best validation loss, never
\* while fewer have accumulated, and an improving epoch resets the counter.
C5_EarlyStopping ==
    pc \in {"epoch", "done"} =>
        /\ early_stopping.wait = hist_streak
        /\ model.stop_training <=> (hist_streak >= wait_time)
        /\ hist_streak <= wait_time
        /\ model.stop_training => early_stopping.stopped_epoch = epoch - 1

\* a run halted early after the counter had been reset at least twice
C5_Witness ==
    /\ pc = "done"
    /\ model.stop_training
    /\ hist_streak = wait_time
    /\ epoch < num_epochs
    /\ epoch > 2 * wait_time

\* C6: the learning rate is multiplied by 0.1 exactly when the plateau
\* callback has counted int(wait_time/4) = 12 consecutive epochs without
\* improvement, and is left alone in every other epoch.
C6_PlateauWindow ==
    [][EpochStep =>
         ((model'.lr # model.lr) <=>
             /\ reduce_lr'.best = reduce_lr.best
             /\ reduce_lr.wait + 1 = wait_time \div 4)]_vars

\* C7: the first ten layers are frozen only in a run that starts from a
\* loaded snapshot; a run that trains from scratch has every layer
\* trainable.
C7_FreezeOnlyWhenLoaded ==
    (pc = "epoch" /\ epoch = 0 /\ model.weights = FreshWeights)
        => model.trainable = Layers

\* C2: when models/model.best.hdf5 cannot be loaded the script goes on: it
\* compiles the model and enters the training loop with freshly initialised
\* weights.
C2_LoadFailureTrainsFromScratch ==
    /\ (pc = "load_weights" /\ file.state # "ok") => ENABLED LoadWeights
    /\ (pc \in {"compile", "callbacks", "fit"} /\ file.state # "ok")
          => model.weights = FreshWeights
    /\ (pc = "epoch" /\ epoch = 0 /\ file.state # "ok")
          => /\ model.weights = FreshWeights
             /\ model.lr = AdamLrExp
             /\ ENABLED Epoch

\* the training loop about to run its first epoch after a failed load
C2_Witness ==
    /\ pc = "epoch" /\ epoch = 0
    /\ file.state = "corrupt"
    /\ model.weights = FreshWeights

\* C8: the training loop stops after at most num_epochs epochs, earlier
\* only when early stopping fired, and after every completed epoch the
\* checkpoint, logging, early-stopping and plateau callbacks have each run
\* once, in that order.
C8_LoopTermination ==
    /\ [](/\ epoch <= num_epochs
          /\ (pc = "done") => (epoch = num_epochs \/ model.stop_training)
          /\ (pc = "done" /\ epoch < num_epochs)
                => /\ hist_streak >= wait_time
                   /\ early_stopping.stopped_epoch = epoch - 1
          /\ (pc \in {"epoch", "done"} /\ epoch >= 1)
                => /\ fired = <<"checkpoint", "csv_logger",
                                "early_stopping", "reduce_lr">>
                   /\ csv_logger.rows = epoch
                   /\ ~csv_logger.has_lr)
    /\ [][pc = "epoch" => (EpochStep \/ pc' = "done")]_vars

\* a run that used all num_epochs epochs without early stopping
C8_Witness ==
    /\ pc = "done"
    /\ epoch = num_epochs
    /\ ~model.stop_training
    /\ Len(fired) = Len(callback_list)

\* C10: across runs that load from and checkpoint to the same file, the
\* snapshot is never replaced by weights with a higher validation loss.
C10_SnapshotNeverWorse ==
    [][(file.state = "ok" /\ file' # file)
          => file'.val_loss <= file.val_loss]_vars

\* the cache as found had all six files readable
AllReadable == \A n \in ArrayNames : cache0[n].state = "ok"

\* the pair of a usage was readable as found
PairReadable(usage) == \A n \in PairOf(usage) : cache0[n].state = "ok"

\* every array of the usage is the one parsed from the CSV
UsesParsed(usage) == \A n \in PairOf(usage) : arrays[n] = load_data(usage)[n]

\* every array of the usage is the one stored in the cache as found
UsesCached(usage) == \A n \in PairOf(usage) : arrays[n] = Cached(n)

\* C1: when any one of the six cache reads fails the script goes on: it
\* parses all three splits from the CSV, binds all six variables to the
\* parsed arrays (no cached one is kept) and has written all three pairs
\* back to the cache when the data stage ends.
C1_CacheFailureRegeneratesAll ==
    /\ (dpc = "except") => ENABLED Regenerate
    /\ (dpc = "ready" /\ ~AllReadable) =>
          /\ parsed = Usages
          /\ \A u \in Usages : UsesParsed(u)
          /\ \A n \in ArrayNames :
                cache[n] = [state |-> "ok", data |-> load_data(UsageOf(n))[n]]

\* the data stage ended after the fifth load raised, with four arrays
\* already bound from the cache
C1_Witness ==
    /\ dpc = "ready"
    /\ cache0["X_test"].state = "corrupt"
    /\ PairReadable("Training") /\ PairReadable("PublicTest")
    /\ parsed = Usages

\* C3 as stated: every split whose cached pair is readable uses the cached
\* pair and is not parsed again, whatever the other splits' files are.
C3_PerSplitCache ==
    dpc = "ready" =>
        \A u \in Usages :
            PairReadable(u) => (UsesCached(u) /\ u \notin parsed)

\* C3 amended: a split whose cached pair is readable uses the cached pair
\* and is not parsed again exactly when the pairs of the other two splits
\* are readable too; otherwise it is parsed again like the others.
C3_CacheUsedWhenAllReadable ==
    dpc = "ready" =>
        \A u \in Usages :
            PairReadable(u) =>
                IF AllReadable
                THEN UsesCached(u) /\ u \notin parsed
                ELSE UsesParsed(u) /\ u \in parsed

\* the data stage ended with all six arrays taken from the cache
C3_Witness ==
    /\ dpc = "ready"
    /\ AllReadable
    /\ \A u \in Usages : UsesCached(u)
    /\ parsed = {}

\* both operands of every layers.add so far have the same shape
SumsWellDefined == \A i \in DOMAIN sums : sums[i].x = sums[i].residual

\* C9: in each residual module the shortcut and the main path have the same
\* shape, and for the 48x48x1 input the stem yields 44x44, the four sums
\* are 22x22x16, 11x11x32, 6x6x64 and 3x3x128, and the head outputs
\* num_classes values.
C9_ResidualShapes ==
    /\ SumsWellDefined
    /\ x # <<>>
    /\ (input_shape = <<48, 48, 1>> /\ apc = Len(Stem) + 1)
          => x = <<44, 44, 8>>
    /\ (input_shape = <<48, 48, 1>> /\ apc = Len(Program) + 1)
          => /\ sums = << [x |-> <<22, 22, 16>>, residual |-> <<22, 22, 16>>],
                          [x |-> <<11, 11, 32>>, residual |-> <<11, 11, 32>>],
                          [x |-> <<6, 6, 64>>, residual |-> <<6, 6, 64>>],
                          [x |-> <<3, 3, 128>>, residual |-> <<3, 3, 128>>] >>
             /\ x = <<num_classes>>

\* the graph of the 48x48x1 input built to the end, all four sums taken
C9_Witness ==
    /\ input_shape = <<48, 48, 1>>
    /\ apc = Len(Program) + 1
    /\ Len(sums) = 4
    /\ x = <<7>>

====
